---- MODULE Spec2Model ----
(***************************************************************************)
(* A model of files/mirror.py: the run guard around the main script        *)
(* (prevent_concurrent_run / release_lock), the mirror set coordinator     *)
(* (mirror, mirror_sect), the two sync strategies (rsync, debmirror) and   *)
(* the retrying process runner (run_process).                              *)
(*                                                                         *)
(* Two specifications share the variables:                                 *)
(*   Spec       one instance of the script (instance 1) run in full        *)
(*              detail, over every configuration of the bounded domain;    *)
(*   SpecGuard  NumInst instances of the script interleaved at the level   *)
(*              of the run guard's system calls, mirror() reduced to its   *)
(*              target attempts and its result.                            *)
(***************************************************************************)
EXTENDS Integers, Sequences, FiniteSets, TLC

\* ------------------------------------------------------------- bounds
\* Number of script instances of SpecGuard.
NumInst == 3
\* Number of target sections of the configuration file.
NumSections == 2

\* ---------------------------------------------------- program constants
\* run_process: "if retry_count is None: retry_count = 5".
DefaultRetryCount == 5
\* The one exit code the callers register for retry: retry_codes=[10].
RsyncPartialTransfer == 10
\* mirror: "bwlimit_mbps=100".
DefaultBwlimit == 100

Inst == 1 .. NumInst
\* Inode p is the lock file created by instance p's open(); inode StaleInode
\* is a lock file that was already there. 0 stands for "no inode".
StaleInode == NumInst + 1
Inodes == 1 .. StaleInode

\* Optional values (Python's None): None is <<>>, a value v is <<v>>.
None == <<>>
Some(v) == <<v>>
IsNone(o) == o = <<>>
Val(o) == o[1]

\* Exit codes an external process may end with: success, the registered
\* transient code, and a permanent failure.
ExitCodes == {0, RsyncPartialTransfer, 1}

Stages == {"precheck", "stage1", "final", "restorecon", "debmirror"}

VARIABLES
  \* ---- the run guard and the main script, per instance
  lock_path,      \* inode linked at LOCK_FILE, 0 when the path does not exist
  flock_owner,    \* inode -> instance whose open file holds the flock, 0 if none
  mainpc,         \* instance -> position in the main script
  lock_fd,        \* instance -> inode its lock_fd is open on, 0 when not open
  success,        \* instance -> the main script's `success`
  raised,         \* instance -> an exception is propagating out of the script
  exit_status,    \* instance -> None while running, Some(status) once exited
  released,       \* instance -> number of completed release_lock calls
  \* ---- instance 1 inside mirror(), in detail
  cfg_file,       \* "ok", "missing" or "unparsable": what config.read meets
  config,         \* [defaults, sections]: the parsed configuration file
  pc,             \* position inside mirror()
  visited,        \* number of sections mirror's loop handed to mirror_sect
  bwlimit_mbps,   \* mirror's bwlimit_mbps
  failed_mirrors, \* mirror's failed_mirrors
  outcomes,       \* history: mirror_sect's result for each visited section
  rp,             \* the run_process call in progress (its arguments and locals)
  rp_ret,         \* what the last run_process call returned: [ok, stdout]
  sync_success,   \* the local `success` of rsync / debmirror
  is_redhat,      \* "unread" until this target's transfer returned, then what
                  \* is_redhat_based() answers on this host: "yes" or "no"
  status,         \* history: stage -> "none", "called", "ok", "fail" for this target
  running,        \* number of child processes alive
  lastlog,        \* the lines run_process printed in its last step
  errmsg          \* the errmsg of "destination invalid" printed for this target
                  \* by rsync / debmirror, "none" when nothing was printed

guardvars == <<lock_path, flock_owner, mainpc, lock_fd, success, raised,
               exit_status, released>>
runvars == <<cfg_file, config, pc, visited, bwlimit_mbps, failed_mirrors, outcomes, rp,
             rp_ret, sync_success, is_redhat, status, running, lastlog, errmsg>>
vars == <<guardvars, runvars>>

\* ------------------------------------------------------ configuration
RequiredKeys == {"name", "type", "host", "remote_dir", "dest"}
DebKeys == {"deb_dists", "deb_arch", "deb_sections"}

\* The name option of section k and its section label.
NameOf(k) == <<"name", k>>
LabelOf(k) == <<"section", k>>

\* A section: its label, the set of option keys present, and the values of
\* the options the control flow reads. Comma separated values are sequences
\* of characters.
Section(k, keys, type, pre, fse, excl) ==
  [label |-> LabelOf(k), keys |-> keys, name |-> NameOf(k), type |-> type,
   rsync_precheck_file |-> pre, rsync_firststage_exclude |-> fse,
   rsync_exclude |-> excl]

\* Sections with one required key missing.
MissingSections(k) ==
  {Section(k, RequiredKeys \ {m}, "rsync", <<>>, <<>>, <<>>) : m \in RequiredKeys}

\* rsync sections: with or without precheck file, first stage excludes
\* (absent, empty value, one pattern, two patterns) and excludes.
RsyncSections(k) ==
  { Section(k, RequiredKeys, "rsync", <<>>, <<>>, <<>>),
    Section(k, RequiredKeys \cup {"rsync_precheck_file"}, "rsync",
            <<".", "l">>, <<>>, <<>>),
    Section(k, RequiredKeys \cup {"rsync_firststage_exclude"}, "rsync",
            <<>>, <<"a">>, <<>>),
    Section(k, RequiredKeys \cup {"rsync_firststage_exclude"}, "rsync",
            <<>>, <<>>, <<>>),
    Section(k, RequiredKeys \cup {"rsync_precheck_file", "rsync_firststage_exclude",
                                  "rsync_exclude"}, "rsync",
            <<".", "l">>, <<"a", ",", "b">>, <<"x">>) }

\* debmirror sections: all three lists present, or one of them missing.
DebSections(k) ==
  {Section(k, RequiredKeys \cup DebKeys, "debmirror", <<>>, <<>>, <<>>)} \cup
  {Section(k, RequiredKeys \cup (DebKeys \ {m}), "debmirror", <<>>, <<>>, <<>>) :
     m \in {"deb_arch"}}

\* A section of a type the script does not know.
OtherSections(k) == {Section(k, RequiredKeys, "ftp", <<>>, <<>>, <<>>)}

SectionChoices(k) ==
  MissingSections(k) \cup RsyncSections(k) \cup DebSections(k) \cup OtherSections(k)

\* The DEFAULT section: user is absent, the current user ("same") or another
\* user ("other"); bwlimit is absent, an integer ("int") or not one ("bad").
DefaultsChoices ==
  { [user |-> "absent", bwlimit |-> "absent"],
    [user |-> "same",   bwlimit |-> "int"],
    [user |-> "other",  bwlimit |-> "absent"],
    [user |-> "absent", bwlimit |-> "bad"],
    [user |-> "other",  bwlimit |-> "bad"] }

\* The configurations of n sections, section k drawn from SectionChoices(k).
RECURSIVE SectionSeqsOf(_)
SectionSeqsOf(n) ==
  IF n = 0 THEN {<<>>}
  ELSE {Append(s, c) : s \in SectionSeqsOf(n - 1), c \in SectionChoices(n)}
SectionSeqs == SectionSeqsOf(NumSections)

Configs == [defaults : DefaultsChoices, sections : SectionSeqs]

EmptyConfig == [defaults |-> [user |-> "absent", bwlimit |-> "absent"],
                sections |-> <<>>]

\* mirror: "if 'name' in config[section]: name = ... else: name = section".
DisplayName(s) == IF "name" \in s.keys THEN s.name ELSE s.label

\* ------------------------------------------------------ pure functions
\* str.split(","): the pieces between commas; never an empty list.
RECURSIVE SplitFrom(_, _, _)
SplitFrom(s, k, cur) ==
  IF k > Len(s) THEN <<cur>>
  ELSE IF s[k] = "," THEN <<cur>> \o SplitFrom(s, k + 1, <<>>)
  ELSE SplitFrom(s, k + 1, Append(cur, s[k]))
split(s) == SplitFrom(s, 1, <<>>)

\* One element of an argument vector: a flag and the value formatted into it.
Arg(flag, val) == [flag |-> flag, val |-> val]
Flag(flag) == Arg(flag, <<>>)
Flags(args) == {args[k].flag : k \in DOMAIN args}

\* rsync: "if not remote.endswith('/'): remote = remote + '/'".
WithSlash(path) == IF Len(path) > 0 /\ path[Len(path)] = "/" THEN path
                   ELSE Append(path, "/")

\* mirror_sect: f"rsync://{config['host']}/{config['remote_dir']}".
Remote == <<"rsync://", "h", "/", "r">>
Dest == <<"/", "d">>

ExcludeArgs(patterns) == [k \in DOMAIN patterns |-> Arg("--exclude=", patterns[k])]

\* rsync: the precheck argument vector.
precheck_args(precheck_file) ==
  << Flag("rsync"), Flag("--no-motd"), Flag("--dry-run"), Flag("--out-format=%n"),
     Arg("src", WithSlash(Remote) \o <<"/">> \o precheck_file),
     Arg("dst", WithSlash(Dest) \o <<"/">> \o precheck_file) >>

\* rsync: common_args, with the always-excluded patterns appended.
common_args(bw, exclude) ==
  << Flag("rsync"), Flag("--recursive"), Flag("--links"), Flag("--perms"),
     Flag("--times"), Flag("--devices"), Flag("--specials"), Flag("--sparse"),
     Flag("--partial"), Flag("--hard-links"), Arg("--exclude=", <<"*.~tmp~">>),
     Flag("--delete-excluded"), Arg("--bwlimit=", <<bw * 1024>>) >>
  \o (IF IsNone(exclude) THEN <<>> ELSE ExcludeArgs(Val(exclude)))

\* rsync: final_args.
final_args == << Flag("--delete-delay"), Flag("--delay-updates") >>

EndArgs == << Arg("src", WithSlash(Remote)), Arg("dst", WithSlash(Dest)) >>

\* rsync: the first stage's argument vector.
stage1_args(bw, exclude, firststage_exclude) ==
  common_args(bw, exclude) \o ExcludeArgs(firststage_exclude) \o EndArgs

\* rsync: the final stage's argument vector.
final_stage_args(bw, exclude) == common_args(bw, exclude) \o final_args \o EndArgs

restorecon_args == << Flag("restorecon"), Flag("-R"), Arg("dst", WithSlash(Dest)) >>

debmirror_args(bw) ==
  << Flag("debmirror"), Flag("--method=rsync"), Flag("--diff=none"),
     Flag("--host="), Flag("--root="), Flag("--dist="), Flag("--arch="),
     Flag("--section="), Flag("--rsync-batch=10000"), Flag("--no-check-gpg"),
     Arg("--rsync-options=-aIL --partial --bwlimit=", <<bw * 1024>>),
     Arg("dst", WithSlash(Dest)) >>

\* ensuredir: what it answers for a destination path in the given state.
\* "absent" is created; "uncreatable" is absent and os.makedirs raises.
DestStates == {"absent", "uncreatable", "dir", "not_dir", "not_writable"}
ensuredir(st) ==
  IF st = "not_dir" THEN [ok |-> FALSE, errmsg |-> "path must be a directory"]
  ELSE IF st = "not_writable" THEN [ok |-> FALSE, errmsg |-> "path must be writable"]
  ELSE IF st = "uncreatable" THEN [ok |-> FALSE, errmsg |-> "unable to create path"]
  ELSE [ok |-> TRUE, errmsg |-> "none"]

\* ------------------------------------- what a piece of code does next
\* Call: it calls run_process; Return: mirror_sect returns ok to mirror's
\* loop; Raise: an exception propagates out of mirror().
Call(stage, args, capture_output, retry_codes) ==
  [kind |-> "call", ok |-> FALSE, stage |-> stage, args |-> args,
   capture_output |-> capture_output, retry_codes |-> retry_codes,
   errmsg |-> "none"]
Return(ok) ==
  [kind |-> "return", ok |-> ok, stage |-> "none", args |-> <<>>,
   capture_output |-> FALSE, retry_codes |-> None, errmsg |-> "none"]
Raise ==
  [kind |-> "raise", ok |-> FALSE, stage |-> "none", args |-> <<>>,
   capture_output |-> FALSE, retry_codes |-> None, errmsg |-> "none"]

\* rsync / debmirror: "if not ok: print(destination invalid: errmsg);
\* return False".
Invalid(msg) == [Return(FALSE) EXCEPT !.errmsg = msg]

\* mirror_sect: the optional rsync arguments read from the section.
precheck_file_of(s) ==
  IF "rsync_precheck_file" \in s.keys THEN Some(s.rsync_precheck_file) ELSE None
exclude_of(s) ==
  IF "rsync_exclude" \in s.keys THEN Some(split(s.rsync_exclude)) ELSE None
firststage_exclude_of(s) ==
  IF "rsync_firststage_exclude" \in s.keys
  THEN Some(split(s.rsync_firststage_exclude)) ELSE None

\* An rsync that goes straight to the final stage.
rsync_transfer_nostage1(s, bw) ==
  Call("final", final_stage_args(bw, exclude_of(s)), FALSE,
       Some({RsyncPartialTransfer}))

\* rsync, from common_args on: "if firststage_exclude:" is true of a list
\* that is not None and not empty.
rsync_transfer(s, bw) ==
  IF ~IsNone(firststage_exclude_of(s)) /\ Len(Val(firststage_exclude_of(s))) > 0
  THEN Call("stage1", stage1_args(bw, exclude_of(s), Val(firststage_exclude_of(s))),
            FALSE, Some({RsyncPartialTransfer}))
  ELSE Call("final", final_stage_args(bw, exclude_of(s)), FALSE,
            Some({RsyncPartialTransfer}))

\* rsync, from its entry to its first run_process call; dst is the state of
\* the destination path.
rsync_enter(s, bw, dst) ==
  IF ~ensuredir(dst).ok THEN Invalid(ensuredir(dst).errmsg)
  ELSE IF ~IsNone(precheck_file_of(s))
  THEN Call("precheck", precheck_args(Val(precheck_file_of(s))), TRUE,
            Some({RsyncPartialTransfer}))
  ELSE rsync_transfer(s, bw)

\* A precheck whose output is not looked at.
rsync_after_precheck_noskip(s, bw, ret) ==
  IF ~ret.ok THEN Return(FALSE) ELSE rsync_transfer(s, bw)

\* A precheck whose failure is taken as "changes exist".
rsync_after_precheck_lenient(s, bw, ret) ==
  IF ret.ok /\ (IsNone(ret.stdout) \/ Len(Val(ret.stdout)) = 0) THEN Return(TRUE)
  ELSE rsync_transfer(s, bw)

\* rsync, after the precheck's run_process returned ret = [ok, stdout].
rsync_after_precheck(s, bw, ret) ==
  IF ~ret.ok THEN Return(FALSE)
  ELSE IF IsNone(ret.stdout) \/ Len(Val(ret.stdout)) = 0 THEN Return(TRUE)
  ELSE rsync_transfer(s, bw)

\* A first stage whose result is dropped.
rsync_after_stage1_unchecked(s, bw, ret) ==
  Call("final", final_stage_args(bw, exclude_of(s)), FALSE,
       Some({RsyncPartialTransfer}))

\* rsync, after the first stage's run_process returned.
rsync_after_stage1(s, bw, ret) ==
  IF ~ret.ok THEN Return(FALSE)
  ELSE Call("final", final_stage_args(bw, exclude_of(s)), FALSE,
            Some({RsyncPartialTransfer}))

\* rsync, after the final stage's run_process returned:
\* "if success and is_redhat_based():" restorecon, then "return success".
\* redhat is the answer is_redhat_based() gives when it is asked.
after_transfer(ok, redhat) ==
  IF ok /\ redhat THEN Call("restorecon", restorecon_args, FALSE, None)
  ELSE Return(ok)

\* A debmirror that restores the context whatever its transfer reported.
debmirror_after_transfer_always(ok, redhat) ==
  IF redhat THEN Call("restorecon", restorecon_args, FALSE, None)
  ELSE Return(ok)

\* debmirror, after its run_process returned: the same two statements,
\* "if success and is_redhat_based():" restorecon, then "return success".
debmirror_after_transfer(ok, redhat) ==
  IF ok /\ redhat THEN Call("restorecon", restorecon_args, FALSE, None)
  ELSE Return(ok)

\* A fixup whose failure fails the target.
after_restorecon_strict(sync_ok, ret) == Return(sync_ok /\ ret.ok)

\* rsync and debmirror, after restorecon's run_process returned: its result
\* is dropped.
after_restorecon(sync_ok, ret) == Return(sync_ok)

\* A debmirror that prints the error of an invalid destination and goes on.
debmirror_enter_noreturn(s, bw, dst) ==
  [Call("debmirror", debmirror_args(bw), FALSE, None)
     EXCEPT !.errmsg = ensuredir(dst).errmsg]

\* debmirror, from its entry to its run_process call.
debmirror_enter(s, bw, dst) ==
  IF ~ensuredir(dst).ok THEN Invalid(ensuredir(dst).errmsg)
  ELSE Call("debmirror", debmirror_args(bw), FALSE, None)

\* mirror_sect, from its entry to the first run_process call.
mirror_sect(s, bw, dst) ==
  IF "name" \notin s.keys THEN Return(FALSE)
  ELSE IF "type" \notin s.keys THEN Return(FALSE)
  ELSE IF "host" \notin s.keys THEN Return(FALSE)
  ELSE IF "remote_dir" \notin s.keys THEN Return(FALSE)
  ELSE IF "dest" \notin s.keys THEN Return(FALSE)
  ELSE IF s.type = "rsync" THEN rsync_enter(s, bw, dst)
  ELSE IF s.type = "debmirror"
  THEN (IF DebKeys \subseteq s.keys THEN debmirror_enter(s, bw, dst)
        ELSE Raise)  \* config["deb_..."] raises KeyError
  ELSE Return(FALSE)

\* ------------------------------------------------------ run_process
\* The frame of a run_process call, with the history of its launches.
NewCall(d) ==
  [stage |-> d.stage, args |-> d.args, capture_output |-> d.capture_output,
   retry_codes |-> d.retry_codes, retry_count |-> DefaultRetryCount,
   i |-> 0, result |-> None, launches |-> 0, codes |-> <<>>]

NoCall ==
  [stage |-> "none", args |-> <<>>, capture_output |-> FALSE, retry_codes |-> None,
   retry_count |-> DefaultRetryCount, i |-> 0, result |-> None, launches |-> 0,
   codes |-> <<>>]

NoRet == [ok |-> FALSE, stdout |-> None]

\* A loop that breaks on 0 only: every nonzero code is retried.
Retryable_any(r, rc) == TRUE

\* "if retry_codes is None or result.returncode not in retry_codes: break",
\* reached with a nonzero return code.
Retryable(r, rc) == ~IsNone(r.retry_codes) /\ rc \in Val(r.retry_codes)

\* A loop over range(retry_count + 1).
InRange_offbyone(r) == r.i <= r.retry_count

\* "for i in range(retry_count)": whether r.i is an iteration of the loop.
InRange(r) == r.i < r.retry_count

\* Whether the loop has another iteration after iteration r.i.
LoopAgain(r) == InRange([r EXCEPT !.i = @ + 1])

\* What the captured standard output may be: empty or not.
Outputs == {<<>>, <<"f">>}

InitStatus == [st \in Stages |-> "none"]

\* ------------------------------------------------------ initial states
GuardInit ==
  /\ flock_owner = [n \in Inodes |-> 0]
  /\ mainpc = [p \in Inst |-> "start"]
  /\ lock_fd = [p \in Inst |-> 0]
  /\ success = [p \in Inst |-> FALSE]
  /\ raised = [p \in Inst |-> FALSE]
  /\ exit_status = [p \in Inst |-> None]
  /\ released = [p \in Inst |-> 0]

RunInit ==
  /\ pc = "mirror"
  /\ visited = 0
  /\ bwlimit_mbps = DefaultBwlimit
  /\ failed_mirrors = <<>>
  /\ outcomes = <<>>
  /\ rp = NoCall
  /\ rp_ret = NoRet
  /\ sync_success = FALSE
  /\ is_redhat = "unread"
  /\ status = InitStatus
  /\ running = 0
  /\ lastlog = <<>>
  /\ errmsg = "none"

\* One instance is started; the lock file is absent, or another instance
\* (instance 2) is inside mirror() holding the lock on the file it created.
Init ==
  /\ \/ /\ lock_path = 0
        /\ GuardInit
     \/ /\ lock_path = 2
        /\ flock_owner = [n \in Inodes |-> IF n = 2 THEN 2 ELSE 0]
        /\ mainpc = [p \in Inst |-> IF p = 2 THEN "mirror" ELSE "start"]
        /\ lock_fd = [p \in Inst |-> IF p = 2 THEN 2 ELSE 0]
        /\ success = [p \in Inst |-> FALSE]
        /\ raised = [p \in Inst |-> FALSE]
        /\ exit_status = [p \in Inst |-> None]
        /\ released = [p \in Inst |-> 0]
  /\ \/ cfg_file = "ok" /\ config \in Configs
     \/ cfg_file \in {"missing", "unparsable"} /\ config = EmptyConfig
  /\ RunInit

\* Every instance is about to start; the lock file is absent or was left
\* behind, unlocked, by an earlier run.
InitGuard ==
  /\ lock_path \in {0, StaleInode}
  /\ GuardInit
  /\ cfg_file = "ok"
  /\ config = EmptyConfig
  /\ RunInit

\* ------------------------------------------------- the main script
\* prevent_concurrent_run: open(LOCK_FILE, 'w') opens the file at the path,
\* creating it when the path does not exist.
prevent_concurrent_run_open(p) ==
  /\ mainpc[p] = "start"
  /\ LET ino == IF lock_path = 0 THEN p ELSE lock_path
     IN /\ lock_path' = ino
        /\ lock_fd' = [lock_fd EXCEPT ![p] = ino]
  /\ mainpc' = [mainpc EXCEPT ![p] = "flock"]
  /\ UNCHANGED <<flock_owner, success, raised, exit_status, released, runvars>>

\* A flock whose refusal does not stop the script.
FlockGranted_always(p) == TRUE

\* flock(fd, LOCK_EX | LOCK_NB) is granted when no open file holds a lock on
\* the inode.
FlockGranted(p) == flock_owner[lock_fd[p]] = 0

\* prevent_concurrent_run: the non-blocking flock; when it is refused the
\* script prints the error and sys.exit(1), which closes its file.
prevent_concurrent_run_flock(p) ==
  /\ mainpc[p] = "flock"
  /\ IF FlockGranted(p)
     THEN /\ flock_owner' = [flock_owner EXCEPT ![lock_fd[p]] = p]
          /\ mainpc' = [mainpc EXCEPT ![p] = "mirror"]
          /\ UNCHANGED <<lock_fd, exit_status>>
     ELSE /\ exit_status' = [exit_status EXCEPT ![p] = Some(1)]
          /\ lock_fd' = [lock_fd EXCEPT ![p] = 0]
          /\ mainpc' = [mainpc EXCEPT ![p] = "exited"]
          /\ UNCHANGED flock_owner
  /\ UNCHANGED <<lock_path, success, raised, released, runvars>>

\* release_lock: fcntl.flock(lock_fd, fcntl.LOCK_UN).
release_lock_unlock(p) ==
  /\ mainpc[p] = "finally"
  /\ flock_owner' = [flock_owner EXCEPT ![lock_fd[p]] = 0]
  /\ mainpc' = [mainpc EXCEPT ![p] = "remove"]
  /\ UNCHANGED <<lock_path, lock_fd, success, raised, exit_status, released,
                 runvars>>

\* release_lock: os.remove(LOCK_FILE) unlinks whatever file is at the path,
\* and raises FileNotFoundError when there is none.
release_lock_remove(p) ==
  /\ mainpc[p] = "remove"
  /\ IF lock_path = 0
     THEN /\ raised' = [raised EXCEPT ![p] = TRUE]
          /\ UNCHANGED <<lock_path, released>>
     ELSE /\ lock_path' = 0
          /\ released' = [released EXCEPT ![p] = @ + 1]
          /\ UNCHANGED raised
  /\ mainpc' = [mainpc EXCEPT ![p] = "exit"]
  /\ UNCHANGED <<flock_owner, lock_fd, success, exit_status, runvars>>

\* The exit status of the script: 1 on a propagating exception or when
\* success is false, else 0.
ExitStatus(p) == IF raised[p] \/ ~success[p] THEN 1 ELSE 0

\* The end of the script: "if not success: sys.exit(1)", "sys.exit(0)", or
\* the propagating exception ends it. The process is gone: its file is
\* closed and its variables no longer exist.
main_exit(p) ==
  /\ mainpc[p] = "exit"
  /\ exit_status' = [exit_status EXCEPT ![p] = Some(ExitStatus(p))]
  /\ lock_fd' = [lock_fd EXCEPT ![p] = 0]
  /\ success' = [success EXCEPT ![p] = FALSE]
  /\ raised' = [raised EXCEPT ![p] = FALSE]
  /\ released' = [released EXCEPT ![p] = 0]
  /\ mainpc' = [mainpc EXCEPT ![p] = "exited"]
  /\ UNCHANGED <<lock_path, flock_owner, runvars>>

\* ------------------------------------- mirror(), as SpecGuard sees it
\* SpecGuard does not look inside mirror(): the call is one step that
\* returns True, returns False or raises (a KeyError of mirror_sect, a
\* ValueError of int()).
mirror_run(p) ==
  /\ mainpc[p] = "mirror"
  /\ \/ /\ \E v \in BOOLEAN : success' = [success EXCEPT ![p] = v]
        /\ UNCHANGED raised
     \/ /\ raised' = [raised EXCEPT ![p] = TRUE]
        /\ UNCHANGED success
  /\ mainpc' = [mainpc EXCEPT ![p] = "finally"]
  /\ UNCHANGED <<lock_path, flock_owner, lock_fd, exit_status, released, runvars>>

\* --------------------------------- mirror(), instance 1, in detail
\* mirror returns v to the main script.
MirrorReturns(v) ==
  /\ success' = [success EXCEPT ![1] = v]
  /\ mainpc' = [mainpc EXCEPT ![1] = "finally"]
  /\ pc' = "returned"
  /\ UNCHANGED raised

\* An exception leaves mirror(): the main script's finally clause runs.
MirrorRaises ==
  /\ raised' = [raised EXCEPT ![1] = TRUE]
  /\ mainpc' = [mainpc EXCEPT ![1] = "finally"]
  /\ pc' = "raised"
  /\ UNCHANGED success

\* mirror's loop body after mirror_sect returned ok for section s:
\* "if not mirror_sect(...): failed_mirrors.append(name)".
LoopBodyEnds(s, ok) ==
  /\ failed_mirrors' = IF ok THEN failed_mirrors
                       ELSE Append(failed_mirrors, DisplayName(s))
  /\ outcomes' = Append(outcomes, ok)
  /\ pc' = "loop"
  /\ UNCHANGED <<mainpc, success, raised>>

\* The step d of the code working on section s is taken; st is the status
\* history to continue from.
Does(d, s, st) ==
  IF d.kind = "call"
  THEN /\ rp' = NewCall(d)
       /\ status' = [st EXCEPT ![d.stage] = "called"]
       /\ pc' = "rp_loop"
       /\ UNCHANGED <<failed_mirrors, outcomes, mainpc, success, raised>>
  ELSE IF d.kind = "return"
  THEN /\ LoopBodyEnds(s, d.ok)
       /\ rp' = IF st = InitStatus THEN NoCall ELSE rp
       /\ status' = st
  ELSE /\ MirrorRaises
       /\ rp' = IF st = InitStatus THEN NoCall ELSE rp
       /\ status' = st
       /\ UNCHANGED <<failed_mirrors, outcomes>>

CurSection == config.sections[visited]

\* A mirror that never compares the configured user with the current one.
UserMismatch_ignored(defaults) == FALSE

\* "if 'user' in config['DEFAULT']: if config['DEFAULT']['user'] !=
\* getpass.getuser()".
UserMismatch(defaults) == defaults.user = "other"

\* mirror, from its entry to its loop: config.read, then the DEFAULT
\* section's bwlimit and user.
mirror_begin ==
  /\ mainpc[1] = "mirror"
  /\ pc = "mirror"
  /\ IF cfg_file = "unparsable"
     THEN MirrorReturns(FALSE) /\ UNCHANGED bwlimit_mbps
     ELSE IF config.defaults.bwlimit = "bad"
     THEN MirrorRaises /\ UNCHANGED bwlimit_mbps  \* int() raises ValueError
     ELSE /\ bwlimit_mbps' = IF config.defaults.bwlimit = "int" THEN 10
                             ELSE bwlimit_mbps
          /\ IF UserMismatch(config.defaults)
             THEN MirrorReturns(FALSE)
             ELSE pc' = "loop" /\ UNCHANGED <<mainpc, success, raised>>
  /\ UNCHANGED <<lock_path, flock_owner, lock_fd, exit_status, visited,
                 released, cfg_file, config, failed_mirrors, outcomes, rp, rp_ret,
                 sync_success, is_redhat, status, running, lastlog, errmsg>>

\* mirror's loop: the next section goes to mirror_sect, which runs up to its
\* first external process; after the last section mirror returns whether
\* failed_mirrors is empty.
mirror_loop ==
  /\ mainpc[1] = "mirror"
  /\ pc = "loop"
  /\ IF visited < Len(config.sections)
     THEN /\ visited' = visited + 1
          /\ \E dst \in DestStates :
               LET d == mirror_sect(config.sections[visited + 1], bwlimit_mbps, dst)
               IN  /\ Does(d, config.sections[visited + 1], InitStatus)
                   /\ errmsg' = d.errmsg
          /\ rp_ret' = NoRet
          /\ sync_success' = FALSE
          /\ is_redhat' = "unread"
          /\ lastlog' = <<>>
     ELSE /\ MirrorReturns(failed_mirrors = <<>>)
          /\ UNCHANGED <<visited, failed_mirrors, outcomes, rp, rp_ret, sync_success,
                         is_redhat, status, lastlog, errmsg>>
  /\ UNCHANGED <<lock_path, flock_owner, lock_fd, exit_status, released,
                 cfg_file, config, bwlimit_mbps, running>>

\* run_process: the top of an iteration of "for i in range(retry_count)":
\* the command is logged and subprocess.run either raises (the call returns
\* False, None) or starts the child process.
run_process_launch ==
  /\ pc = "rp_loop"
  /\ InRange(rp)
  /\ \/ /\ rp' = [rp EXCEPT !.launches = @ + 1]
        /\ lastlog' = <<"Running", "FAILED">>
        /\ rp_ret' = [ok |-> FALSE, stdout |-> None]
        /\ status' = [status EXCEPT ![rp.stage] = "fail"]
        /\ pc' = "rp_ret"
        /\ UNCHANGED running
     \/ /\ rp' = [rp EXCEPT !.launches = @ + 1]
        /\ lastlog' = <<"Running">>
        /\ running' = running + 1
        /\ pc' = "rp_wait"
        /\ UNCHANGED <<rp_ret, status>>
  /\ UNCHANGED <<guardvars, cfg_file, config, visited, bwlimit_mbps, failed_mirrors,
                 outcomes,
                 sync_success, is_redhat, errmsg>>

\* run_process, after its loop: the call returns r.
RunProcessReturns(r, log) ==
  /\ rp_ret' = r
  /\ status' = [status EXCEPT ![rp.stage] = IF r.ok THEN "ok" ELSE "fail"]
  /\ lastlog' = log \o (IF r.ok THEN <<"SUCCESS">> ELSE <<"FAILED">>)
  /\ pc' = "rp_ret"

\* A result taken from the first attempt's return code instead of the last.
Result_first(r, rc, out) ==
  IF r.codes[1] # 0 THEN [ok |-> FALSE, stdout |-> None]
  ELSE [ok |-> TRUE, stdout |-> IF r.capture_output THEN Some(out) ELSE None]

\* run_process: what the call returns after its loop ended with exit code rc
\* and standard output out.
Result(r, rc, out) ==
  IF rc # 0 THEN [ok |-> FALSE, stdout |-> None]
  ELSE [ok |-> TRUE, stdout |-> IF r.capture_output THEN Some(out) ELSE None]

\* run_process: the child process exits with rc; the loop breaks on 0 and on
\* a code that is not eligible for retry, else logs the retry notice and goes
\* to its next iteration, if it has one; after the loop the call returns.
run_process_exit ==
  /\ pc = "rp_wait"
  /\ running' = running - 1
  /\ \E rc \in ExitCodes :
     \E out \in (IF rc = 0 /\ rp.capture_output THEN Outputs ELSE {<<>>}) :
       LET r == [rp EXCEPT !.result = Some(rc), !.codes = Append(@, rc)]
       IN IF rc = 0 \/ ~Retryable(r, rc)
          THEN /\ rp' = r
               /\ RunProcessReturns(Result(r, rc, out), <<>>)
          ELSE IF LoopAgain(r)
          THEN /\ rp' = [r EXCEPT !.i = @ + 1]
               /\ lastlog' = <<"RETRYING">>
               /\ pc' = "rp_loop"
               /\ UNCHANGED <<rp_ret, status>>
          ELSE /\ rp' = [r EXCEPT !.i = @ + 1]
               /\ RunProcessReturns(Result(r, rc, out), <<"RETRYING">>)
  /\ UNCHANGED <<guardvars, cfg_file, config, visited, bwlimit_mbps, failed_mirrors,
                 outcomes,
                 sync_success, is_redhat, errmsg>>

\* What the continuations of rsync and debmirror leave alone.
ResumeFrame ==
  UNCHANGED <<lock_path, flock_owner, lock_fd, exit_status,
              released, cfg_file, config, visited, bwlimit_mbps, rp_ret, running,
              lastlog, errmsg>>

\* rsync continues after the precheck.
AfterPrecheck ==
  /\ pc = "rp_ret" /\ rp.stage = "precheck"
  /\ Does(rsync_after_precheck(CurSection, bwlimit_mbps, rp_ret), CurSection, status)
  /\ UNCHANGED <<sync_success, is_redhat>>
  /\ ResumeFrame

\* rsync continues after the first stage.
AfterStage1 ==
  /\ pc = "rp_ret" /\ rp.stage = "stage1"
  /\ Does(rsync_after_stage1(CurSection, bwlimit_mbps, rp_ret), CurSection, status)
  /\ UNCHANGED <<sync_success, is_redhat>>
  /\ ResumeFrame

\* rsync continues after the final stage, debmirror after its transfer:
\* success is kept; the host is of the Red Hat family or not.
AfterTransfer ==
  /\ pc = "rp_ret" /\ rp.stage \in {"final", "debmirror"}
  /\ sync_success' = rp_ret.ok
  /\ \E redhat \in BOOLEAN :
       /\ is_redhat' = IF redhat THEN "yes" ELSE "no"
       /\ IF rp.stage = "final"
          THEN Does(after_transfer(rp_ret.ok, redhat), CurSection, status)
          ELSE Does(debmirror_after_transfer(rp_ret.ok, redhat), CurSection, status)
  /\ ResumeFrame

\* rsync and debmirror return after restorecon.
AfterRestorecon ==
  /\ pc = "rp_ret" /\ rp.stage = "restorecon"
  /\ Does(after_restorecon(sync_success, rp_ret), CurSection, status)
  /\ UNCHANGED <<sync_success, is_redhat>>
  /\ ResumeFrame

\* ------------------------------------------------------ specifications
Next ==
  \/ prevent_concurrent_run_open(1)
  \/ prevent_concurrent_run_flock(1)
  \/ mirror_begin
  \/ mirror_loop
  \/ run_process_launch
  \/ run_process_exit
  \/ AfterPrecheck
  \/ AfterStage1
  \/ AfterTransfer
  \/ AfterRestorecon
  \/ release_lock_unlock(1)
  \/ release_lock_remove(1)
  \/ main_exit(1)

Spec == Init /\ [][Next]_vars

NextGuard ==
  \E p \in Inst :
    \/ prevent_concurrent_run_open(p)
    \/ prevent_concurrent_run_flock(p)
    \/ mirror_run(p)
    \/ release_lock_unlock(p)
    \/ release_lock_remove(p)
    \/ main_exit(p)

SpecGuard == InitGuard /\ [][NextGuard]_vars

\* ------------------------------------------------------------ claims
\* The run_process call of rp is not in progress: rp and rp_ret describe a
\* call that has returned (when rp.launches > 0).
CallOver == pc \notin {"rp_loop", "rp_wait"}

\* The section mirror's loop visited last has gone through the loop body.
TargetDone == visited >= 1 /\ Len(outcomes) = visited

InMirror == {p \in Inst : mainpc[p] = "mirror"}

\* C1: run guard mutual exclusion: under any interleaving of the instances'
\* steps at most one instance is inside mirror() at a time.
C1_MutualExclusion == Cardinality(InMirror) <= 1

C3_NoRetryOnPermanentFailure ==
  /\ \A k \in DOMAIN rp.codes :
       ( /\ rp.codes[k] # 0
         /\ (IsNone(rp.retry_codes) \/ rp.codes[k] \notin Val(rp.retry_codes)) )
       => (k = Len(rp.codes) /\ rp.launches = k /\ CallOver /\ ~rp_ret.ok)
  /\ (rp.launches > Len(rp.codes) /\ pc # "rp_wait")
     => (rp.launches = Len(rp.codes) + 1 /\ CallOver /\ ~rp_ret.ok)
  /\ rp.stage \in {"debmirror", "restorecon"}
     => /\ IsNone(rp.retry_codes)
        /\ rp.launches <= 1
        /\ CallOver => rp.launches = 1

\* debmirror, called without retry codes, exited with the code rsync calls
\* retry on, and was not launched again.
C3_Witness ==
  /\ pc = "rp_ret"
  /\ rp.stage = "debmirror"
  /\ rp.codes = <<RsyncPartialTransfer>>
  /\ rp.launches = 1
  /\ ~rp_ret.ok

\* C4: success after transient failures: a call registered with the
\* retryable code whose first k attempts (k < 5) exited with it and whose
\* attempt k+1 exited 0 has made exactly k+1 launches and reports success;
\* when it is the final stage, the target succeeds.
C4_SuccessAfterTransient ==
  LET n == Len(rp.codes)
  IN ( /\ n >= 1
       /\ ~IsNone(rp.retry_codes)
       /\ rp.codes[n] = 0
       /\ \A k \in 1 .. n - 1 : rp.codes[k] = RsyncPartialTransfer )
     => /\ n <= DefaultRetryCount
        /\ rp.launches = n
        /\ CallOver
        /\ rp_ret.ok
        /\ status[rp.stage] = "ok"
        /\ (rp.stage = "final" /\ pc # "rp_ret")
           => (TargetDone /\ outcomes[visited])

\* The final stage exited 10, 10, 0: three launches, and the target is
\* recorded as synced.
C4_Witness ==
  /\ pc = "loop"
  /\ rp.stage = "final"
  /\ rp.codes = <<RsyncPartialTransfer, RsyncPartialTransfer, 0>>
  /\ rp.launches = 3
  /\ TargetDone
  /\ outcomes[visited]

\* The precheck's run_process call has just returned success with empty
\* output.
PrecheckReportsNoChange ==
  /\ pc = "rp_ret"
  /\ rp.stage = "precheck"
  /\ rp_ret.ok
  /\ rp_ret.stdout = Some(<<>>)

\* C5: precheck skip: when the precheck of an rsync target succeeds and
\* reports no changed path, the next step of the script ends the target as
\* synced, and no first stage, final stage or restoration was or is invoked
\* for it.
C5_PrecheckSkip ==
  [][ PrecheckReportsNoChange
      => /\ pc' = "loop"
         /\ outcomes' = Append(outcomes, TRUE)
         /\ failed_mirrors' = failed_mirrors
         /\ status' = status
         /\ \A s \in {"stage1", "final", "restorecon"} : status[s] = "none"
         /\ running' = 0 ]_vars

\* A target with a precheck file was skipped: the precheck is the one call
\* made for it, and it is recorded as synced.
C5_Witness ==
  /\ pc = "loop"
  /\ TargetDone
  /\ "rsync_precheck_file" \in CurSection.keys
  /\ rp.stage = "precheck"
  /\ rp_ret.ok
  /\ rp_ret.stdout = Some(<<>>)
  /\ status = [InitStatus EXCEPT !["precheck"] = "ok"]
  /\ outcomes[visited]

\* C6: a failed precheck is a hard failure: when the precheck call reports
\* failure (permanent exit code, launch failure or exhausted budget) the
\* target is recorded as failed and neither the first stage, the final
\* stage nor the restoration is invoked for it.
C6_PrecheckFailureIsHard ==
  /\ (rp.stage = "precheck" /\ CallOver /\ ~rp_ret.ok) => status["precheck"] = "fail"
  /\ status["precheck"] = "fail"
     => /\ \A s \in {"stage1", "final", "restorecon"} : status[s] = "none"
        /\ pc # "rp_ret" => (TargetDone /\ ~outcomes[visited])

\* The precheck used up its budget on the transient code and the target is
\* recorded as failed.
C6_Witness ==
  /\ pc = "loop"
  /\ TargetDone
  /\ rp.stage = "precheck"
  /\ rp.launches = DefaultRetryCount
  /\ status["precheck"] = "fail"
  /\ ~outcomes[visited]
  /\ failed_mirrors # <<>>

\* C7: a failed first stage blocks the final stage: when the first stage
\* call reports failure the final stage is never invoked and the target is
\* recorded as failed.
C7_FirstStageFailureBlocksFinal ==
  /\ (rp.stage = "stage1" /\ CallOver /\ ~rp_ret.ok) => status["stage1"] = "fail"
  /\ status["stage1"] = "fail"
     => /\ \A s \in {"final", "restorecon"} : status[s] = "none"
        /\ pc # "rp_ret" => (TargetDone /\ ~outcomes[visited])

\* The first stage of a target with first stage excludes failed after five
\* attempts, and the target is recorded as failed.
C7_Witness ==
  /\ pc = "loop"
  /\ TargetDone
  /\ "rsync_firststage_exclude" \in CurSection.keys
  /\ rp.stage = "stage1"
  /\ rp.launches = DefaultRetryCount
  /\ status["stage1"] = "fail"
  /\ status["final"] = "none"
  /\ ~outcomes[visited]

\* C8: stage ordering: within a target a stage is invoked only after the
\* stages before it that the target requires have succeeded (precheck,
\* first stage, final stage, restoration); at most one call is in progress
\* and it is the last stage invoked; at most one child process is alive;
\* the next target is visited only when no call and no child of the target
\* before it is left, and targets are visited in configuration order.
C8_StageOrdering ==
  /\ running \in {0, 1}
  /\ running = 1 <=> pc = "rp_wait"
  /\ \A s \in Stages : status[s] = "called" => (s = rp.stage /\ ~CallOver)
  /\ ~CallOver => status[rp.stage] = "called"
  /\ status["stage1"] # "none"
     => /\ status["precheck"] \in {"none", "ok"}
        /\ "rsync_precheck_file" \in CurSection.keys => status["precheck"] = "ok"
  /\ status["final"] # "none"
     => /\ status["precheck"] \in {"none", "ok"}
        /\ status["stage1"] \in {"none", "ok"}
        /\ "rsync_precheck_file" \in CurSection.keys => status["precheck"] = "ok"
        /\ "rsync_firststage_exclude" \in CurSection.keys => status["stage1"] = "ok"
  /\ status["restorecon"] # "none"
     => (status["final"] = "ok" \/ status["debmirror"] = "ok")
  /\ (\E s \in Stages : status[s] # "none")
     => (visited >= 1 /\ CurSection.type \in {"rsync", "debmirror"})
  /\ Len(outcomes) \in {visited - 1, visited}
  /\ (~CallOver \/ pc = "rp_ret") => Len(outcomes) = visited - 1
  /\ pc = "loop" => Len(outcomes) = visited

\* The second target is in its restoration, after its precheck, first
\* stage and final stage succeeded in turn, with one child process alive.
C8_Witness ==
  /\ visited = 2
  /\ pc = "rp_wait"
  /\ running = 1
  /\ rp.stage = "restorecon"
  /\ status = [st \in Stages |->
                 IF st = "restorecon" THEN "called"
                 ELSE IF st = "debmirror" THEN "none" ELSE "ok"]

\* The display names of the sections up to k that mirror_sect failed on.
RECURSIVE FailedUpTo(_)
FailedUpTo(k) ==
  IF k = 0 THEN <<>>
  ELSE IF outcomes[k] THEN FailedUpTo(k - 1)
  ELSE Append(FailedUpTo(k - 1), DisplayName(config.sections[k]))

\* mirror() got to its loop over the sections and has ended.
CoordinatorEnded ==
  /\ mainpc[1] = "finally"
  /\ cfg_file # "unparsable"
  /\ config.defaults.bwlimit # "bad"
  /\ config.defaults.user # "other"

\* C9: coordinator completeness: a run that gets to the loop over the
\* targets hands every configured target to mirror_sect, whatever the
\* earlier ones did; failed_mirrors is the display names of the failed
\* targets in configuration order; the run reports success iff it is empty.
C9_CoordinatorComplete ==
  CoordinatorEnded
  => /\ pc = "returned"
     /\ visited = Len(config.sections)
     /\ Len(outcomes) = Len(config.sections)
     /\ failed_mirrors = FailedUpTo(Len(outcomes))
     /\ success[1] <=> failed_mirrors = <<>>

\* Section k lacks a field its strategy requires.
LacksRequiredField(k) ==
  LET s == config.sections[k]
  IN \/ ~(RequiredKeys \subseteq s.keys)
     \/ ("type" \in s.keys /\ s.type = "debmirror" /\ ~(DebKeys \subseteq s.keys))

\* C10: a missing required field fails its own target only: the target is
\* recorded as failed, no external process is invoked for it, the run is
\* not aborted and every later target is still visited.
C10_MissingFieldLocal ==
  /\ \A k \in 1 .. visited :
       LacksRequiredField(k)
       => /\ Len(outcomes) >= k
          /\ ~outcomes[k]
          /\ k = visited => (status = InitStatus /\ rp = NoCall /\ running = 0)
  /\ (mainpc[1] = "finally" /\ visited >= 1) => visited = Len(config.sections)

\* Instance 1 read its configuration, ran as the configured user and every
\* configured target went through the loop body with a successful sync.
EveryTargetSynced ==
  /\ cfg_file = "ok"
  /\ config.defaults.user # "other"
  /\ pc = "returned"
  /\ Len(outcomes) = Len(config.sections)
  /\ \A k \in DOMAIN outcomes : outcomes[k]

\* C11: the process exits 0 exactly when every configured target synced, and
\* 1 in every other case: configuration file missing or unparsable, lock not
\* acquired, wrong effective user, a failed target.
C11_ExitCode ==
  mainpc[1] = "exited" =>
    /\ exit_status[1] \in {Some(0), Some(1)}
    /\ exit_status[1] = Some(0) <=> EveryTargetSynced

\* C12: when DEFAULT names a user other than the effective one the run fails
\* as a whole: no section is visited, no external process is started, mirror
\* never returns True and the process exits 1.
C12_WrongUserAborts ==
  (cfg_file = "ok" /\ config.defaults.user = "other") =>
    /\ visited = 0 /\ outcomes = <<>> /\ failed_mirrors = <<>>
    /\ rp = NoCall /\ running = 0 /\ status = InitStatus
    /\ pc \in {"mirror", "returned", "raised"}
    /\ ~success[1]
    /\ mainpc[1] = "exited" => exit_status[1] = Some(1)

C12_Witness ==
  /\ cfg_file = "ok" /\ config.defaults.user = "other"
  /\ config.defaults.bwlimit = "absent"
  /\ Len(config.sections) > 0
  /\ pc = "returned"
  /\ mainpc[1] = "exited" /\ exit_status[1] = Some(1)
  /\ lock_path = 0

\* The first-stage exclude patterns section s configures: none when the
\* option is absent or its value is empty.
FirstStageExcludesGiven(s) ==
  "rsync_firststage_exclude" \in s.keys /\ s.rsync_firststage_exclude # <<>>

\* C13: for an rsync target the first stage is invoked only when first-stage
\* excludes are given; when they are empty or absent and no precheck is
\* configured, the only transfer is the final one, it carries --delete-delay
\* and --delay-updates, and the target succeeds exactly when it exits 0.
C13_SingleOrTwoStage ==
  (visited >= 1 /\ CurSection.type = "rsync" /\ RequiredKeys \subseteq CurSection.keys) =>
    /\ status["stage1"] # "none" => FirstStageExcludesGiven(CurSection)
    /\ rp.stage = "final" => {"--delete-delay", "--delay-updates"} \subseteq Flags(rp.args)
    /\ (/\ ~FirstStageExcludesGiven(CurSection)
        /\ "rsync_precheck_file" \notin CurSection.keys
        /\ TargetDone) =>
          /\ status["stage1"] = "none" /\ status["precheck"] = "none"
          /\ outcomes[visited] = (status["final"] = "ok")

\* The rsync options that request deletion of files at the destination.
DeletionFlags ==
  {"--delete", "--delete-before", "--delete-during", "--delete-delay",
   "--delete-after", "--delete-excluded", "--del"}

\* C14: the argument vector of the first stage holds no flag that requests
\* deletion of destination files; such flags appear in the final stage only.
C14_FirstStageDeletesNothing ==
  rp.stage \in {"precheck", "stage1"} => Flags(rp.args) \cap DeletionFlags = {}

\* C15: for an rsync target restorecon is invoked only after a final stage
\* that succeeded and only on a Red Hat family host, it is launched at most
\* once and the target ends when it returns, and the target's result is the
\* final stage's result whatever restorecon did.
C15_RsyncFixup ==
  (visited >= 1 /\ CurSection.type = "rsync") =>
    /\ status["restorecon"] # "none" => (status["final"] = "ok" /\ is_redhat = "yes")
    /\ rp.stage = "restorecon" => rp.launches <= 1
    /\ (status["restorecon"] \in {"ok", "fail"} /\ pc # "rp_ret") => TargetDone
    /\ (status["final"] \in {"ok", "fail"} /\ TargetDone) =>
         outcomes[visited] = (status["final"] = "ok")

C15_Witness ==
  /\ visited >= 1 /\ CurSection.type = "rsync"
  /\ status["final"] = "ok" /\ is_redhat = "yes"
  /\ status["restorecon"] = "fail" /\ rp.stage = "restorecon" /\ rp.codes = <<1>>
  /\ pc = "loop" /\ TargetDone /\ outcomes[visited]

\* The run_process call that moves the data of section s.
TransferStage(s) == IF s.type = "rsync" THEN "final" ELSE "debmirror"

\* C16 (as stated): on a Red Hat family host debmirror invokes restorecon
\* after its transfer even when the transfer failed, while rsync invokes it
\* only after a successful final stage.
C16_FixupAsymmetry ==
  (visited >= 1 /\ pc = "loop" /\ TargetDone) =>
    /\ (CurSection.type = "debmirror" /\ is_redhat = "yes"
          /\ status["debmirror"] = "fail") => status["restorecon"] # "none"
    /\ (CurSection.type = "rsync" /\ status["restorecon"] # "none") =>
          status["final"] = "ok"

\* C16 (amended): on a Red Hat family host both strategies invoke restorecon
\* exactly when their transfer succeeded; after a failed debmirror transfer
\* the target ends as failed without restorecon.
C16_FixupOnlyAfterSuccess ==
  (visited >= 1 /\ CurSection.type \in {"rsync", "debmirror"}) =>
    /\ status["restorecon"] # "none" =>
         (status[TransferStage(CurSection)] = "ok" /\ is_redhat = "yes")
    /\ (is_redhat = "yes" /\ status[TransferStage(CurSection)] = "ok") =>
         status["restorecon"] # "none"
    /\ (is_redhat = "yes" /\ status[TransferStage(CurSection)] = "fail") =>
         (status["restorecon"] = "none" /\ TargetDone /\ ~outcomes[visited])

C16_Witness ==
  /\ visited >= 1 /\ CurSection.type = "debmirror"
  /\ is_redhat = "yes" /\ status["debmirror"] = "fail"
  /\ status["restorecon"] = "none"
  /\ pc = "loop" /\ TargetDone /\ ~outcomes[visited]

\* C17: every retry notice run_process prints is followed by another launch
\* of the command; a retry notice is never the last line before the failure
\* report.
C17_RetryNoticeThenRetry ==
  \A k \in DOMAIN lastlog :
    lastlog[k] = "RETRYING" =>
      (k = Len(lastlog) /\ pc = "rp_loop" /\ InRange(rp))

\* The messages ensuredir gives for a destination that is not a directory,
\* is not writable or cannot be created.
DestinationErrors ==
  {ensuredir(st).errmsg : st \in {"not_dir", "not_writable", "uncreatable"}}

C19_ReleaseCompletes ==
  \A p \in Inst :
    /\ released[p] <= 1
    /\ mainpc[p] = "exit" => released[p] = 1

\* C20: while another instance holds the lock, an instance that starts is
\* refused: it exits with status 1 without entering mirror() (no section
\* visited, no external process), without unlocking or removing anything,
\* and the holder's file stays at the path with the holder's lock on it.
C20_ContentionSideEffectFree ==
  \A q \in Inst \ {1} :
    (mainpc[q] = "mirror" /\ lock_fd[q] = q) =>
      /\ lock_path = q
      /\ flock_owner = [n \in Inodes |-> IF n = q THEN q ELSE 0]
      /\ mainpc[1] \in {"start", "flock", "exited"}
      /\ released[1] = 0 /\ ~raised[1] /\ ~success[1]
      /\ pc = "mirror" /\ visited = 0 /\ outcomes = <<>>
      /\ rp = NoCall /\ status = InitStatus /\ running = 0
      /\ mainpc[1] = "exited" => exit_status[1] = Some(1)

C20_Witness ==
  /\ mainpc[2] = "mirror" /\ lock_path = 2 /\ flock_owner[2] = 2
  /\ mainpc[1] = "exited" /\ exit_status[1] = Some(1)
  /\ cfg_file = "ok" /\ Len(config.sections) > 0
  /\ pc = "mirror" /\ visited = 0

\* The step of an instance whose flock is refused, under any interleaving:
\* it ends the instance with status 1 and changes nothing else.
RefusedStepChangesNothing ==
  [][\A p \in Inst :
       (mainpc[p] = "flock" /\ flock_owner[lock_fd[p]] # 0 /\ mainpc'[p] # "flock") =>
         /\ mainpc'[p] = "exited" /\ exit_status'[p] = Some(1)
         /\ lock_path' = lock_path /\ flock_owner' = flock_owner
         /\ released' = released /\ runvars' = runvars
         /\ \A q \in Inst \ {p} : mainpc'[q] = mainpc[q]]_vars

====
